---- MODULE Spec2Model ----
(***************************************************************************)
(* Model of src/main.py: an outage-timetable bot.  resolve_slot finds the  *)
(* current and the next slot of a timetable; the poller sweeps over the    *)
(* subscribers and notifies those whose current slot changed; the command  *)
(* handlers start and set_group create subscribers and select groups.      *)
(***************************************************************************)
EXTENDS Integers, Sequences, FiniteSets, TLC

(***************************************************************************)
(* Bounds of the model.                                                    *)
(***************************************************************************)
MaxHour == 2        \* timetable hours and clock hours range over 0..MaxHour
MaxMinute == 1      \* minutes range over 0..MaxMinute
MaxSecond == 1      \* clock seconds range over 0..MaxSecond
MaxEntries == 3     \* a timetable given to the resolver has at most this many entries
MaxChats == 2       \* chat ids range over 1..MaxChats
MaxSweeps == 2      \* the poller's loop is followed for this many sweeps
MaxSelections == 2  \* this many group selections are followed
MaxQueries == 2     \* this many /status queries are followed
MaxListings == 3    \* this many calls of get_groups are followed
MaxTicks == 3       \* the clock of the groups cache advances this many times

(***************************************************************************)
(* Values.  A time-of-day key "HH:MM" is the pair <<h, m>>; a slot is      *)
(* <<key, status>>; Python's None is NoneSlot for keys and slots and the   *)
(* string "None" for statuses and groups.                                  *)
(***************************************************************************)
MinutesPerHour == 60
SecondsPerMinute == 60
CacheMinutes == 60

NoneSlot == <<>>
NoneStr == "None"

StatusCodes == {"0", "10", "1"}
Keys == (0..MaxHour) \X (0..MaxMinute)
Clocks == [h : 0..MaxHour, m : 0..MaxMinute, s : 0..MaxSecond]

\* every dict {"HH:MM": status} with at most n entries over the keys ks
TimetablesOver(ks, n) ==
  UNION {[K -> StatusCodes] : K \in {S \in SUBSET ks : Cardinality(S) <= n}}

(***************************************************************************)
(* resolve_slot                                                            *)
(***************************************************************************)
\* datetime as seconds since midnight of now_local's date
Instant(h, m, s) == (h * MinutesPerHour + m) * SecondsPerMinute + s

NowInstant(now_local) == Instant(now_local.h, now_local.m, now_local.s)

\* the projection with minute=m forgotten
SlotInstant_HourOnly(hhmm) == Instant(hhmm[1], 0, 0)

\* h, m = map(int, hhmm.split(":")); dt = now_local.replace(hour=h, minute=m, second=0, microsecond=0)
SlotInstant(hhmm) == Instant(hhmm[1], hhmm[2], 0)

\* slots.append((dt, hhmm, st)) for each item, then slots.sort(key=lambda x: x[0])
RECURSIVE SortedSlots(_, _)
SortedSlots(times, todo) ==
  IF todo = {} THEN <<>>
  ELSE LET first == CHOOSE k \in todo : \A j \in todo : SlotInstant(k) <= SlotInstant(j)
       IN <<<<SlotInstant(first), first, times[first]>>>> \o SortedSlots(times, todo \ {first})

\* the loop with dt < now_local for dt <= now_local
RECURSIVE ScanSlots_Strict(_, _, _, _, _)
ScanSlots_Strict(slots, now, i, current, nxt) ==
  IF i > Len(slots) THEN <<current, nxt>>
  ELSE IF slots[i][1] < now
       THEN ScanSlots_Strict(slots, now, i + 1, <<slots[i][2], slots[i][3]>>,
                             IF i + 1 <= Len(slots)
                               THEN <<slots[i + 1][2], slots[i + 1][3]>>
                               ELSE nxt)
       ELSE IF current = NoneSlot
              THEN << <<slots[Len(slots)][2], slots[Len(slots)][3]>>,
                      <<slots[1][2], slots[1][3]>> >>
              ELSE <<current, nxt>>

\* the loop whose before-the-first-entry branch takes slots[0] as current
RECURSIVE ScanSlots_NoWrap(_, _, _, _, _)
ScanSlots_NoWrap(slots, now, i, current, nxt) ==
  IF i > Len(slots) THEN <<current, nxt>>
  ELSE IF slots[i][1] <= now
       THEN ScanSlots_NoWrap(slots, now, i + 1, <<slots[i][2], slots[i][3]>>,
                             IF i + 1 <= Len(slots)
                               THEN <<slots[i + 1][2], slots[i + 1][3]>>
                               ELSE nxt)
       ELSE IF current = NoneSlot
              THEN << <<slots[1][2], slots[1][3]>>,
                      <<slots[1][2], slots[1][3]>> >>
              ELSE <<current, nxt>>

\* the for loop of resolve_slot from index i on (1-based), with the loop's locals
RECURSIVE ScanSlots(_, _, _, _, _)
ScanSlots(slots, now, i, current, nxt) ==
  IF i > Len(slots) THEN <<current, nxt>>
  ELSE IF slots[i][1] <= now
       THEN ScanSlots(slots, now, i + 1, <<slots[i][2], slots[i][3]>>,
                      IF i + 1 <= Len(slots)
                        THEN <<slots[i + 1][2], slots[i + 1][3]>>
                        ELSE nxt)
       ELSE IF current = NoneSlot
              THEN << <<slots[Len(slots)][2], slots[Len(slots)][3]>>,
                      <<slots[1][2], slots[1][3]>> >>
              ELSE <<current, nxt>>

\* resolve_slot returning (None, None) for an empty timetable
resolve_slot_EmptyOk(times, now_local) ==
  LET slots == SortedSlots(times, DOMAIN times)
      scan == ScanSlots(slots, NowInstant(now_local), 1, NoneSlot, NoneSlot)
  IN [exc |-> NoneStr, cur |-> scan[1], nxt |-> scan[2]]

\* the call's outcome: exc = "None" and (cur, nxt) returned, or the exception raised
resolve_slot(times, now_local) ==
  LET slots == SortedSlots(times, DOMAIN times)
      scan == ScanSlots(slots, NowInstant(now_local), 1, NoneSlot, NoneSlot)
  IN IF scan[1] = NoneSlot
       THEN IF Len(slots) = 0
              THEN [exc |-> "IndexError", cur |-> NoneSlot, nxt |-> NoneSlot]
              ELSE [exc |-> NoneStr,
                    cur |-> <<slots[Len(slots)][2], slots[Len(slots)][3]>>,
                    nxt |-> <<slots[1][2], slots[1][3]>>]
       ELSE [exc |-> NoneStr, cur |-> scan[1], nxt |-> scan[2]]

(***************************************************************************)
(* State.                                                                  *)
(***************************************************************************)
VARIABLES
  users,        \* the users dict: chat_id -> {"group", "last_slot", "last_status"}
  user_order,   \* the users dict: its keys in insertion order
  pc,           \* poller: "start", "fetch" (awaiting the fetch), "send" (awaiting
                \* send_message), "sleep" (awaiting asyncio.sleep)
  now_local,    \* poller: now_local of the sweep
  snapshot,     \* poller: the chat ids of list(users.items()) of the sweep
  idx,          \* poller: position of the for loop in snapshot
  chat_id,      \* poller: loop variable
  group,        \* poller: local group
  cur,          \* poller: local cur
  nxt,          \* poller: local nxt
  sweeps,       \* history: number of sweeps started
  selections,   \* history: number of group selections made
  outcome,      \* history: what this sweep did for each chat so far
  owed,         \* history: "pending" once the chat selected a group, "evaluating"
                \* while an evaluation that decides after that selection is in
                \* progress, "none" once such an evaluation sent its notification,
                \* "missed" once such an evaluation decided not to notify
  st_pc,        \* status: "idle", or "fetch" (awaiting fetch_times_for_group)
  st_chat,      \* status: m.chat.id of the query in progress
  st_group,     \* status: local group
  st_reply,     \* history: how the last /status query ended: "choose_group" or
                \* "status_text" answered, or "unhandled" (the handler raised)
  st_exc,       \* history: the exception the last /status query met
  queries,      \* history: number of /status queries received
  cache_ts,     \* _groups_cache["ts"]: <<>> for None, <<t>> for the instant t
  cache_groups, \* _groups_cache["groups"]
  clock,        \* datetime.now(timezone.utc), in minutes
  inflight,     \* get_groups: number of calls awaiting fetch_json
  gg_last,      \* history: how get_groups last went on: "hit" (returned the
                \* cache), "miss" (started a fetch), "refetched", "raised"
  gg_ret,       \* history: the list get_groups last returned
  ts_data,      \* history: the dataJson keys of the fetch that last set "ts"
  listings,     \* history: number of calls of get_groups
  ticks,        \* history: number of advances of the clock
  in_times,     \* resolver call: the timetable passed
  in_now,       \* resolver call: the instant passed
  rpc,          \* resolver call: "call" before it ran, "done" after
  res           \* resolver call: its outcome

pollerVars == <<pc, now_local, snapshot, idx, chat_id, group, cur, nxt>>
historyVars == <<sweeps, selections, outcome, owed>>
resolverVars == <<in_times, in_now, rpc, res>>
statusVars == <<st_pc, st_chat, st_group, st_reply, st_exc, queries>>
cacheVars == <<cache_ts, cache_groups, clock, inflight, gg_last, gg_ret, ts_data,
               listings, ticks>>
cmdVars == <<statusVars, cacheVars>>
vars == <<users, user_order, pollerVars, historyVars, resolverVars, cmdVars>>

NoResult == [exc |-> "unset", cur |-> NoneSlot, nxt |-> NoneSlot]

\* chat ids are opaque keys of the users dict: they are numbered in the order
\* in which the chats first reach the bot
Chats == 1..MaxChats
Groups == {"g1", "g2"}

\* {"group": None, "last_slot": None, "last_status": None}
NewUser == [group |-> NoneStr, last_slot |-> NoneSlot, last_status |-> NoneStr]

Known(c) == \E i \in 1..Len(user_order) : user_order[i] = c

\* what data["dataJson"][group]["times"] can be when the upstream has the
\* group: no entry, one entry with either status, or two entries
BotKeys == {<<0, 0>>, <<1, 0>>}
BotTimetables ==
  {<<>>} \cup {[k \in {<<0, 0>>} |-> st] : st \in {"0", "1"}}
         \cup {[k \in BotKeys |-> IF k = <<0, 0>> THEN "0" ELSE "1"]}
\* what datetime.now() can be at the start of a sweep
BotClocks == {c \in Clocks : c.h <= 1 /\ c.m = 0 /\ c.s = 0}

NoChat == 0
NoOutcome == [c \in Chats |-> "none"]

(***************************************************************************)
(* Command handlers.                                                       *)
(***************************************************************************)
\* an update from chat c reaches the bot
Arrives(c) == Known(c) \/ c = Len(user_order) + 1

\* users[key] = {...} for users.setdefault(key, {...})
SetDefault_Overwrite(c) ==
  <<[users EXCEPT ![c] = NewUser],
    IF Known(c) THEN user_order ELSE Append(user_order, c)>>

\* users.setdefault(key, {"group": None, "last_slot": None, "last_status": None})
SetDefault(c) ==
  IF Known(c) THEN <<users, user_order>>
  ELSE <<[users EXCEPT ![c] = NewUser], Append(user_order, c)>>

\* start, up to its first await
start(c) ==
  /\ Arrives(c)
  /\ users' = SetDefault(c)[1]
  /\ user_order' = SetDefault(c)[2]
  /\ UNCHANGED <<pollerVars, historyVars, resolverVars, cmdVars>>

\* an update of the group alone
UpdateGroup_KeepLast(us, c, g) == [us EXCEPT ![c].group = g]

\* users[chat].update({"group": g, "last_slot": None, "last_status": None})
UpdateGroup(us, c, g) ==
  [us EXCEPT ![c] = [group |-> g, last_slot |-> NoneSlot, last_status |-> NoneStr]]

\* set_group, up to its first await
set_group(c, g) ==
  /\ selections < MaxSelections
  /\ Arrives(c)
  /\ users' = UpdateGroup(SetDefault(c)[1], c, g)
  /\ user_order' = SetDefault(c)[2]
  /\ selections' = selections + 1
  /\ owed' = [owed EXCEPT ![c] = IF pc = "fetch" /\ chat_id = c
                                    THEN "evaluating" ELSE "pending"]
  /\ UNCHANGED <<pollerVars, sweeps, outcome, resolverVars, cmdVars>>

(***************************************************************************)
(* poller                                                                  *)
(***************************************************************************)
\* the decision with "and" for "or"
ShouldNotify_And(u, c) == u.last_slot # c[1] /\ u.last_status # c[2]

\* a decision that always notifies
ShouldNotify_Always(u, c) == TRUE

\* u.get("last_slot") != cur[0] or u.get("last_status") != cur[1]
ShouldNotify(u, c) == u.last_slot # c[1] \/ u.last_status # c[2]

\* the for loop from position i up to its next await: subscribers without a
\* group are skipped, the first one with a group starts its fetch; past the
\* end of the snapshot the poller sleeps
RECURSIVE Advance(_, _, _, _, _)
Advance(us, snap, i, last, out) ==
  IF i > Len(snap)
    THEN [pc |-> "sleep", idx |-> i, chat_id |-> last[1], group |-> last[2], outcome |-> out]
    ELSE LET c == snap[i]
             g == us[c].group
         IN IF g = NoneStr
              THEN Advance(us, snap, i + 1, <<c, g>>, [out EXCEPT ![c] = "nogroup"])
              ELSE [pc |-> "fetch", idx |-> i, chat_id |-> c, group |-> g,
                    outcome |-> [out EXCEPT ![c] = "fetching"]]

\* the for loop over the users dict itself for the list made of it
Continue_Live(us, snap, i, out, ow) ==
  LET a == Advance(us, user_order, i, <<chat_id, group>>, out)
  IN /\ pc' = a.pc
     /\ idx' = a.idx
     /\ chat_id' = a.chat_id
     /\ group' = a.group
     /\ outcome' = a.outcome
     /\ owed' = IF a.pc = "fetch" /\ ow[a.chat_id] = "pending"
                THEN [ow EXCEPT ![a.chat_id] = "evaluating"]
                ELSE ow

\* the poller moves on with loop position i
Continue(us, snap, i, out, ow) ==
  LET a == Advance(us, snap, i, <<chat_id, group>>, out)
  IN /\ pc' = a.pc
     /\ idx' = a.idx
     /\ chat_id' = a.chat_id
     /\ group' = a.group
     /\ outcome' = a.outcome
     /\ owed' = IF a.pc = "fetch" /\ ow[a.chat_id] = "pending"
                THEN [ow EXCEPT ![a.chat_id] = "evaluating"]
                ELSE ow

\* a sweep started whatever the poller awaits, as by a second poller task
SweepStart_Reentrant ==
  /\ sweeps < MaxSweeps
  /\ sweeps' = sweeps + 1
  /\ \E n \in BotClocks : now_local' = n
  /\ snapshot' = user_order
  /\ Continue(users, user_order, 1, NoOutcome, owed)
  /\ UNCHANGED <<users, user_order, cur, nxt, selections, resolverVars, cmdVars>>

\* while True: now_local = datetime.now(); for chat_id, u in list(users.items()): ...
SweepStart ==
  /\ pc \in {"start", "sleep"}
  /\ sweeps < MaxSweeps
  /\ sweeps' = sweeps + 1
  /\ \E n \in BotClocks : now_local' = n
  /\ snapshot' = user_order
  /\ Continue(users, user_order, 1, NoOutcome, owed)
  /\ UNCHANGED <<users, user_order, cur, nxt, selections, resolverVars, cmdVars>>

\* an exception that leaves the poller: the task ends
Swallow_Dies ==
  /\ pc' = "dead"
  /\ outcome' = [outcome EXCEPT ![chat_id] = "error"]
  /\ owed' = [owed EXCEPT ![chat_id] = IF @ = "evaluating" THEN "pending" ELSE @]
  /\ UNCHANGED <<users, user_order, now_local, snapshot, idx, chat_id, group,
                 sweeps, selections, resolverVars, cmdVars>>

\* an exception that ends the for loop
Swallow_Abort ==
  /\ pc' = "sleep"
  /\ outcome' = [outcome EXCEPT ![chat_id] = "error"]
  /\ owed' = [owed EXCEPT ![chat_id] = IF @ = "evaluating" THEN "pending" ELSE @]
  /\ UNCHANGED <<users, user_order, now_local, snapshot, idx, chat_id, group,
                 sweeps, selections, resolverVars, cmdVars>>

\* the except clause: the exception is dropped and the loop goes on
Swallow ==
  /\ Continue(users, snapshot, idx + 1, [outcome EXCEPT ![chat_id] = "error"],
              [owed EXCEPT ![chat_id] = IF @ = "evaluating" THEN "pending" ELSE @])
  /\ UNCHANGED <<users, user_order, now_local, snapshot, sweeps, selections, resolverVars, cmdVars>>

\* fetch_json raises (network error, timeout, HTTP status, invalid JSON)
FetchFails ==
  /\ pc = "fetch"
  /\ Swallow
  /\ UNCHANGED <<cur, nxt>>

\* fetch_json returns data that has no "times" of the group: KeyError
FetchUnknownGroup ==
  /\ pc = "fetch"
  /\ Swallow
  /\ UNCHANGED <<cur, nxt>>

\* the fetch returns the group's times, resolve_slot raises
FetchResolveFails ==
  /\ pc = "fetch"
  /\ \E times \in BotTimetables : resolve_slot(times, now_local).exc # NoneStr
  /\ Swallow
  /\ UNCHANGED <<cur, nxt>>

\* the fetch returns, cur is resolved and is what the subscriber was last told
FetchUnchanged ==
  /\ pc = "fetch"
  /\ \E times \in BotTimetables :
       /\ LET r == resolve_slot(times, now_local)
          IN /\ r.exc = NoneStr
             /\ ~ShouldNotify(users[chat_id], r.cur)
             /\ cur' = r.cur
             /\ nxt' = r.nxt
  /\ Continue(users, snapshot, idx + 1, [outcome EXCEPT ![chat_id] = "unchanged"],
              [owed EXCEPT ![chat_id] = IF @ = "evaluating" THEN "missed" ELSE @])
  /\ UNCHANGED <<users, user_order, now_local, snapshot, sweeps, selections, resolverVars, cmdVars>>

\* the fetch returns, cur is resolved and differs: bot.send_message is awaited
FetchNotify ==
  /\ pc = "fetch"
  /\ \E times \in BotTimetables :
       /\ LET r == resolve_slot(times, now_local)
          IN /\ r.exc = NoneStr
             /\ ShouldNotify(users[chat_id], r.cur)
             /\ cur' = r.cur
             /\ nxt' = r.nxt
  /\ pc' = "send"
  /\ outcome' = [outcome EXCEPT ![chat_id] = "sending"]
  /\ UNCHANGED <<users, user_order, now_local, snapshot, idx, chat_id, group,
                 sweeps, selections, owed, resolverVars, cmdVars>>

\* a record of the slot alone
Record_SlotOnly(us, c, slot) == [us EXCEPT ![c].last_slot = slot[1]]

\* u["last_slot"], u["last_status"] = cur[0], cur[1]
Record(us, c, slot) == [us EXCEPT ![c].last_slot = slot[1], ![c].last_status = slot[2]]

\* send_message returns and the slot is recorded
SendOk ==
  /\ pc = "send"
  /\ users' = Record(users, chat_id, cur)
  /\ Continue(users, snapshot, idx + 1, [outcome EXCEPT ![chat_id] = "notified"],
              [owed EXCEPT ![chat_id] = IF @ = "evaluating" THEN "none" ELSE @])
  /\ UNCHANGED <<user_order, now_local, snapshot, cur, nxt, sweeps, selections, resolverVars, cmdVars>>

\* a failed send that is recorded all the same
SendFails_Records ==
  /\ pc = "send"
  /\ users' = Record(users, chat_id, cur)
  /\ Continue(users, snapshot, idx + 1, [outcome EXCEPT ![chat_id] = "error"],
              [owed EXCEPT ![chat_id] = IF @ = "evaluating" THEN "pending" ELSE @])
  /\ UNCHANGED <<user_order, now_local, snapshot, cur, nxt, sweeps, selections, resolverVars, cmdVars>>

\* send_message raises
SendFails ==
  /\ pc = "send"
  /\ Swallow
  /\ UNCHANGED <<cur, nxt>>

(***************************************************************************)
(* status                                                                  *)
(***************************************************************************)
\* _groups_cache["ts"] is None
NoTs == <<>>

\* no command handler has run yet: _groups_cache = {"ts": None, "groups": []}
InitCmd ==
  /\ st_pc = "idle"
  /\ st_chat = NoChat
  /\ st_group = NoneStr
  /\ st_reply = NoneStr
  /\ st_exc = NoneStr
  /\ queries = 0
  /\ cache_ts = NoTs
  /\ cache_groups = <<>>
  /\ clock = 0
  /\ inflight = 0
  /\ gg_last = NoneStr
  /\ gg_ret = <<>>
  /\ ts_data = {}
  /\ listings = 0
  /\ ticks = 0

\* the handler ends: with the answer it sent, or with the exception it raised
StatusEnds(reply, exc) ==
  /\ st_pc' = "idle"
  /\ st_reply' = reply
  /\ st_exc' = exc
  /\ UNCHANGED <<st_chat, st_group, queries>>
  /\ UNCHANGED <<users, user_order, pollerVars, historyVars, resolverVars, cacheVars>>

\* status, up to its first await: u = users.get(m.chat.id); without a group the
\* handler answers and returns, with one it awaits the fetch
status(c) ==
  /\ st_pc = "idle"
  /\ queries < MaxQueries
  /\ queries' = queries + 1
  /\ st_chat' = c
  /\ IF ~Known(c) \/ users[c].group = NoneStr
       THEN /\ st_pc' = "idle"
            /\ st_reply' = "choose_group"
            /\ st_group' = st_group
       ELSE /\ st_pc' = "fetch"
            /\ st_reply' = NoneStr
            /\ st_group' = users[c].group
  /\ st_exc' = NoneStr
  /\ UNCHANGED <<users, user_order, pollerVars, historyVars, resolverVars, cacheVars>>

\* fetch_json raises: nothing catches it in status
StatusFetchFails ==
  /\ st_pc = "fetch"
  /\ StatusEnds("unhandled", "UpstreamError")

\* data has no "times" of the group: KeyError
StatusUnknownGroup ==
  /\ st_pc = "fetch"
  /\ StatusEnds("unhandled", "KeyError")

\* the fetch returns the group's times, resolve_slot raises
StatusResolveFails ==
  /\ st_pc = "fetch"
  /\ \E times \in BotTimetables, n \in BotClocks :
       /\ resolve_slot(times, n).exc # NoneStr
       /\ StatusEnds("unhandled", resolve_slot(times, n).exc)

\* the fetch returns, the slot is resolved and m.answer(status_text(...)) is sent
StatusAnswers ==
  /\ st_pc = "fetch"
  /\ \E times \in BotTimetables, n \in BotClocks :
       resolve_slot(times, n).exc = NoneStr
  /\ StatusEnds("status_text", NoneStr)

(***************************************************************************)
(* get_groups and the handlers that list the groups: start and page.       *)
(***************************************************************************)
\* the keys of dataJson: a name, and "#" for a key that contains a "#"
GroupKeys == {<<1, "">>, <<2, "">>, <<1, "#">>}

\* what fetch_json can return: any set of keys (none without "dataJson")
UpstreamKeys == SUBSET GroupKeys

\* "#" not in g
is_default_group(g) == g[2] # "#"

\* the order of str on the keys: by name, a key before the keys it prefixes
KeyBefore(a, b) == a[1] < b[1] \/ (a[1] = b[1] /\ a[2] = "" /\ b[2] = "#")

\* sorted(...)
RECURSIVE sorted(_)
sorted(ks) ==
  IF ks = {} THEN <<>>
  ELSE LET first == CHOOSE k \in ks : \A j \in ks \ {k} : KeyBefore(k, j)
       IN <<first>> \o sorted(ks \ {first})

\* the cache test with "<=" for "<"
CacheValid_Inclusive(ts, now) == ts # NoTs /\ now - ts[1] <= CacheMinutes

\* ts and (datetime.now(timezone.utc) - ts) < timedelta(minutes=cache_minutes)
CacheValid(ts, now) == ts # NoTs /\ now - ts[1] < CacheMinutes

\* get_groups, up to its first await: the cached list is returned, or
\* fetch_json is awaited
GetGroupsCall ==
  /\ listings < MaxListings
  /\ listings' = listings + 1
  /\ IF CacheValid(cache_ts, clock)
       THEN /\ gg_last' = "hit"
            /\ gg_ret' = cache_groups
            /\ inflight' = inflight
       ELSE /\ gg_last' = "miss"
            /\ gg_ret' = gg_ret
            /\ inflight' = inflight + 1
  /\ UNCHANGED <<cache_ts, cache_groups, clock, ts_data, ticks>>

\* start with the listing it awaits: users.setdefault(...), then get_groups
start_listing(c) ==
  /\ Arrives(c)
  /\ users' = SetDefault(c)[1]
  /\ user_order' = SetDefault(c)[2]
  /\ GetGroupsCall
  /\ UNCHANGED <<pollerVars, historyVars, resolverVars, statusVars>>

\* page, up to its first await: get_groups
page ==
  /\ GetGroupsCall
  /\ UNCHANGED <<users, user_order, pollerVars, historyVars, resolverVars, statusVars>>

\* fetch_json returns to a get_groups: groups = sorted(...), "ts" and "groups"
\* are set and groups is returned, with no await in between
GetGroupsReturns ==
  /\ inflight > 0
  /\ inflight' = inflight - 1
  /\ \E data \in UpstreamKeys :
       LET groups == sorted({g \in data : is_default_group(g)})
       IN /\ cache_ts' = <<clock>>
          /\ cache_groups' = groups
          /\ gg_ret' = groups
          /\ ts_data' = data
  /\ gg_last' = "refetched"
  /\ UNCHANGED <<clock, listings, ticks>>
  /\ UNCHANGED <<users, user_order, pollerVars, historyVars, resolverVars, statusVars>>

\* fetch_json raises in a get_groups: the exception leaves get_groups
GetGroupsRaises ==
  /\ inflight > 0
  /\ inflight' = inflight - 1
  /\ gg_last' = "raised"
  /\ UNCHANGED <<cache_ts, cache_groups, clock, gg_ret, ts_data, listings, ticks>>
  /\ UNCHANGED <<users, user_order, pollerVars, historyVars, resolverVars, statusVars>>

\* time passes
TickMinutes == CacheMinutes \div 2

Tick ==
  /\ ticks < MaxTicks
  /\ ticks' = ticks + 1
  /\ clock' = clock + TickMinutes
  /\ UNCHANGED <<cache_ts, cache_groups, inflight, gg_last, gg_ret, ts_data, listings>>
  /\ UNCHANGED <<users, user_order, pollerVars, historyVars, resolverVars, statusVars>>

(***************************************************************************)
(* The bot: the poller and the command handlers interleave at the awaits.  *)
(***************************************************************************)
Init ==
  /\ users = [c \in Chats |-> NewUser]
  /\ user_order = <<>>
  /\ pc = "start"
  /\ now_local = [h |-> 0, m |-> 0, s |-> 0]
  /\ snapshot = <<>>
  /\ idx = 1
  /\ chat_id = NoChat
  /\ group = NoneStr
  /\ cur = NoneSlot
  /\ nxt = NoneSlot
  /\ sweeps = 0
  /\ selections = 0
  /\ outcome = NoOutcome
  /\ owed = [c \in Chats |-> "none"]
  /\ in_times = <<>>
  /\ in_now = [h |-> 0, m |-> 0, s |-> 0]
  /\ rpc = "unused"
  /\ res = NoResult
  /\ InitCmd

Next ==
  \/ \E c \in Chats : start(c)
  \/ \E c \in Chats, g \in Groups : set_group(c, g)
  \/ SweepStart
  \/ FetchFails
  \/ FetchUnknownGroup
  \/ FetchResolveFails
  \/ FetchUnchanged
  \/ FetchNotify
  \/ SendOk
  \/ SendFails

Spec == Init /\ [][Next]_vars

\* the poller task: the event loop runs it whenever what it awaits is over,
\* and every await of it ends (the fetch and the send time out, the sleep ends)
PollerStep ==
  \/ SweepStart
  \/ FetchFails
  \/ FetchUnknownGroup
  \/ FetchResolveFails
  \/ FetchUnchanged
  \/ FetchNotify
  \/ SendOk
  \/ SendFails

SpecFair == Spec /\ WF_vars(PollerStep)

(***************************************************************************)
(* The groups cache: listings from start and page, concurrent at the       *)
(* await of fetch_json.                                                    *)
(***************************************************************************)
NextCache ==
  \/ \E c \in Chats : start_listing(c)
  \/ page
  \/ GetGroupsReturns
  \/ GetGroupsRaises
  \/ Tick

SpecCache == Init /\ [][NextCache]_vars

(***************************************************************************)
(* The command handlers on their own, started from the states of the users *)
(* dict that the poller and the selections leave behind: each known chat   *)
(* has no group, a group and nothing recorded, or a group and a recorded   *)
(* slot.                                                                   *)
(***************************************************************************)
\* the (cur[0], cur[1]) pairs the poller can record
RecordableSlots ==
  {resolve_slot(t, n).cur : t \in BotTimetables \ {<<>>}, n \in BotClocks}

UserStates ==
  {NewUser}
    \cup {[group |-> g, last_slot |-> NoneSlot, last_status |-> NoneStr] : g \in Groups}
    \cup {[group |-> g, last_slot |-> sl[1], last_status |-> sl[2]] :
            g \in Groups, sl \in RecordableSlots}

InitStatus ==
  /\ \E k \in 0..MaxChats :
       /\ user_order = [i \in 1..k |-> i]
       /\ users \in {us \in [Chats -> UserStates] : \A c \in Chats : c > k => us[c] = NewUser}
  /\ pc = "start"
  /\ now_local = [h |-> 0, m |-> 0, s |-> 0]
  /\ snapshot = <<>>
  /\ idx = 1
  /\ chat_id = NoChat
  /\ group = NoneStr
  /\ cur = NoneSlot
  /\ nxt = NoneSlot
  /\ sweeps = 0
  /\ selections = 0
  /\ outcome = NoOutcome
  /\ owed = [c \in Chats |-> IF users[c].group # NoneStr /\ users[c].last_slot = NoneSlot
                               THEN "pending" ELSE "none"]
  /\ in_times = <<>>
  /\ in_now = [h |-> 0, m |-> 0, s |-> 0]
  /\ rpc = "unused"
  /\ res = NoResult
  /\ InitCmd

NextStatus ==
  \/ \E c \in Chats : start(c)
  \/ \E c \in Chats, g \in Groups : set_group(c, g)
  \/ \E c \in Chats : status(c)
  \/ StatusFetchFails
  \/ StatusUnknownGroup
  \/ StatusResolveFails
  \/ StatusAnswers

SpecStatus == InitStatus /\ [][NextStatus]_vars

(***************************************************************************)
(* The resolver on its own: every timetable and instant within the bounds. *)
(***************************************************************************)
InitResolve ==
  /\ users = [c \in Chats |-> NewUser]
  /\ user_order = <<>>
  /\ pc = "unused"
  /\ now_local = [h |-> 0, m |-> 0, s |-> 0]
  /\ snapshot = <<>>
  /\ idx = 1
  /\ chat_id = NoChat
  /\ group = NoneStr
  /\ cur = NoneSlot
  /\ nxt = NoneSlot
  /\ sweeps = 0
  /\ selections = 0
  /\ outcome = NoOutcome
  /\ owed = [c \in Chats |-> "none"]
  /\ in_times \in TimetablesOver(Keys, MaxEntries)
  /\ in_now \in Clocks
  /\ rpc = "call"
  /\ res = NoResult
  /\ InitCmd

CallResolve ==
  /\ rpc = "call"
  /\ res' = resolve_slot(in_times, in_now)
  /\ rpc' = "done"
  /\ UNCHANGED <<users, user_order, pollerVars, historyVars, in_times, in_now, cmdVars>>

NextResolve == CallResolve

SpecResolve == InitResolve /\ [][NextResolve]_vars

(***************************************************************************)
(* Vocabulary of the resolver's claims, stated on the keys themselves.     *)
(***************************************************************************)
\* time-of-day a is at or before time-of-day b
KeyLE(a, b) == a[1] < b[1] \/ (a[1] = b[1] /\ a[2] <= b[2])

NowKey == <<in_now.h, in_now.m>>
PastKeys == {k \in DOMAIN in_times : KeyLE(k, NowKey)}
FutureKeys == DOMAIN in_times \ PastKeys
EarliestKey(ks) == CHOOSE k \in ks : \A j \in ks : KeyLE(k, j)
LatestKey(ks) == CHOOSE k \in ks : \A j \in ks : KeyLE(j, k)
EntryAt(k) == <<k, in_times[k]>>
Resolved == rpc = "done" /\ DOMAIN in_times # {}

\* C1: for a non-empty timetable and now at or after the day's last entry,
\* resolve_slot returns current = the last entry and next = the first entry
\* of the timetable in ascending order (single-entry timetables included).
C1_NextWrapsToFirst ==
  (Resolved /\ FutureKeys = {}) =>
     /\ res.exc = NoneStr
     /\ res.cur = EntryAt(LatestKey(DOMAIN in_times))
     /\ res.nxt = EntryAt(EarliestKey(DOMAIN in_times))

\* C2: for a non-empty timetable, resolve_slot returns a current slot that is
\* an entry of the timetable, and when some entry is at or before now, the
\* current slot is the entry with the greatest such time-of-day.
C2_CurrentIsLatestPast ==
  Resolved =>
     /\ res.exc = NoneStr
     /\ \E k \in DOMAIN in_times : res.cur = EntryAt(k)
     /\ PastKeys # {} => res.cur = EntryAt(LatestKey(PastKeys))

C2_Witness ==
  /\ Resolved /\ res.exc = NoneStr
  /\ Cardinality(PastKeys) >= 2 /\ FutureKeys # {}
  /\ in_now.s > 0

\* C3: for a (non-empty) timetable all of whose entries are later than now,
\* resolve_slot does not fail and returns current = the latest entry and
\* next = the earliest entry.
C3_BeforeFirstWraps ==
  (Resolved /\ PastKeys = {}) =>
     /\ res.exc = NoneStr
     /\ res.cur = EntryAt(LatestKey(DOMAIN in_times))
     /\ res.nxt = EntryAt(EarliestKey(DOMAIN in_times))

C3_Witness ==
  /\ Resolved /\ PastKeys = {} /\ Cardinality(DOMAIN in_times) >= 2
  /\ res.cur # res.nxt

\* C4: for a timetable with at least two entries where current is an entry
\* other than the day's last (an entry at or before now exists and an entry
\* later than now exists), next is the entry immediately following current
\* in ascending time-of-day order.
C4_NextFollowsCurrent ==
  (Resolved /\ PastKeys # {} /\ FutureKeys # {}) =>
     /\ res.exc = NoneStr
     /\ res.nxt = EntryAt(EarliestKey(FutureKeys))
     /\ KeyLE(res.cur[1], res.nxt[1]) /\ res.cur[1] # res.nxt[1]
     /\ ~ \E k \in DOMAIN in_times :
            /\ k # res.cur[1] /\ k # res.nxt[1]
            /\ KeyLE(res.cur[1], k) /\ KeyLE(k, res.nxt[1])

C4_Witness ==
  /\ Resolved /\ Cardinality(PastKeys) >= 2 /\ Cardinality(FutureKeys) >= 1
  /\ res.nxt = EntryAt(EarliestKey(FutureKeys))

\* C5: resolve_slot on a timetable with zero entries ends in an exception of
\* that call and returns no (current, next) result, whatever now is.
C5_EmptyTimetableFails ==
  (rpc = "done" /\ DOMAIN in_times = {}) =>
     /\ res.exc # NoneStr
     /\ res.cur = NoneSlot /\ res.nxt = NoneSlot

C5_Witness == rpc = "done" /\ DOMAIN in_times = {} /\ res.exc = "IndexError"

(***************************************************************************)
(* Claims about the sweep and the group selection.                         *)
(***************************************************************************)
LastTold(u) == <<u.last_slot, u.last_status>>
Evaluated(c) == outcome[c] \in {"error", "unchanged", "notified"}

\* C6: when a subscriber's timetable was fetched and resolved, the sweep goes
\* on to send a notification if and only if the subscriber's last_slot
\* differs from the current time-of-day or its last_status differs from the
\* current status; a subscriber whose last_slot is None is always notified.
C6_NotifyIffChanged ==
  [][\A c \in Chats :
       (outcome[c] = "fetching" /\ outcome'[c] \in {"sending", "unchanged"}) =>
          /\ outcome'[c] = "sending" <=>
               (users[c].last_slot # cur'[1] \/ users[c].last_status # cur'[2])
          /\ outcome'[c] = "sending" <=> pc' = "send"
          /\ users[c].last_slot = NoneSlot => outcome'[c] = "sending"]_vars

C6_Witness ==
  /\ pc = "send"
  /\ users[chat_id].last_slot = cur[1]
  /\ users[chat_id].last_status # cur[2]

\* C7: after a group selection, the first evaluation of that subscriber that
\* takes its decision after the selection and whose fetch and resolution
\* succeed decides to notify, whatever the sweep in flight at the selection
\* did (its record does not undo the reset).
C7_ResetNeverLost == \A c \in Chats : owed[c] # "missed"

\* C8: a group selection leaves the subscriber with the selected group,
\* last_slot = None and last_status = None, from any prior subscriber state,
\* and no step changes a subscriber's group without clearing both.
C8_SelectionResets ==
  [][\A c \in Chats :
       /\ \A g \in Groups :
            set_group(c, g) =>
              /\ users'[c] = [group |-> g, last_slot |-> NoneSlot, last_status |-> NoneStr]
              /\ Known(c)'
       /\ users'[c].group # users[c].group =>
            users'[c].last_slot = NoneSlot /\ users'[c].last_status = NoneStr]_vars

C8_Witness ==
  \E c \in Chats :
    /\ outcome[c] = "notified"
    /\ users[c].group # NoneStr
    /\ LastTold(users[c]) = <<NoneSlot, NoneStr>>

\* C9: a failure of the fetch, the resolution or the send for one subscriber
\* does not end the sweep: the poller goes on with the next subscriber of the
\* snapshot that has a group, a subscriber is passed over only when it has no
\* group, and when the sweep is over every subscriber of the snapshot was
\* passed over for that reason or evaluated.
C9_SweepIsolation ==
  /\ [](pc \in {"start", "sleep"} =>
          \A i \in 1..Len(snapshot) :
             outcome[snapshot[i]] = "nogroup" \/ Evaluated(snapshot[i]))
  /\ [][\A c \in Chats :
          /\ (outcome'[c] = "nogroup" /\ (outcome[c] # "nogroup" \/ sweeps' # sweeps)) =>
                users[c].group = NoneStr
          /\ (outcome[c] \in {"fetching", "sending"} /\ outcome'[c] = "error") =>
                LET rest == {j \in (idx + 1)..Len(snapshot) :
                               users[snapshot[j]].group # NoneStr}
                IN IF rest = {} THEN pc' = "sleep"
                   ELSE /\ pc' = "fetch"
                        /\ \A j \in rest : idx' <= j
                        /\ idx' \in rest
                        /\ chat_id' = snapshot[idx']]_vars

C9_Witness ==
  /\ pc = "sleep"
  /\ Len(snapshot) >= 2
  /\ outcome[snapshot[1]] = "error"
  /\ outcome[snapshot[2]] = "notified"

\* C10: the sweep writes a subscriber's last_slot and last_status when, and
\* only when, a notification to that subscriber was sent, and writes the
\* current slot the notification was based on; a false decision or a failed
\* fetch, resolution or send leaves the subscriber as it was, and the only
\* other change of the two fields is their reset by a group selection.
C10_RecordOncePerNotification ==
  [][\A c \in Chats :
       /\ (outcome[c] = "sending" /\ outcome'[c] = "notified") =>
             LastTold(users'[c]) = <<cur[1], cur[2]>>
       /\ (LastTold(users'[c]) # LastTold(users[c]) /\ users'[c].last_slot # NoneSlot) =>
             outcome[c] = "sending" /\ outcome'[c] = "notified"
       /\ (LastTold(users'[c]) # LastTold(users[c]) /\ users'[c].last_slot = NoneSlot) =>
             selections' = selections + 1 /\ users'[c].last_status = NoneStr
       /\ (outcome[c] \in {"fetching", "sending"} /\ outcome'[c] \in {"error", "unchanged"}) =>
             users'[c] = users[c]
       /\ (pc = "send" /\ c = chat_id) => cur' = cur]_vars

C10_Witness ==
  \E c \in Chats :
    /\ sweeps = 2
    /\ outcome[c] = "notified"
    /\ LastTold(users[c]) = <<cur[1], cur[2]>>
    /\ nxt # NoneSlot

(***************************************************************************)
(* Claims about the command handlers.                                      *)
(***************************************************************************)
\* C11: a /status query that fails (the fetch raises, the group is absent
\* from the fetched data, the timetable is empty) ends with a visible
\* "try again" answer to the user and never with an unhandled exception.
C11_StatusFailureAnswered ==
  /\ st_reply # "unhandled"
  /\ st_exc # NoneStr => st_reply = "try_again"

\* C14: a /start from a known subscriber leaves its group, last_slot and
\* last_status as they were, and no step of a /status query, answered or
\* failing, changes the users dict; last_slot and last_status change only
\* in a record of the sweep or in a group selection.
C14_HandlersLeaveUsers ==
  [][/\ \A c \in Chats :
         /\ (start(c) /\ Known(c)) => (users'[c] = users[c] /\ user_order' = user_order)
         /\ LastTold(users'[c]) # LastTold(users[c]) =>
               \/ selections' = selections + 1
               \/ outcome[c] = "sending" /\ outcome'[c] = "notified"
     /\ statusVars' # statusVars => (users' = users /\ user_order' = user_order)]_vars

C14_Witness ==
  /\ st_reply = "unhandled"
  /\ Known(st_chat)
  /\ users[st_chat].last_slot # NoneSlot
  /\ queries = 2

(***************************************************************************)
(* Claims about the poller's loop.                                         *)
(***************************************************************************)
\* C12: no failure of a fetch, a resolution or a send ends the poller: it is
\* always at one of its awaits, and under fairness every sweep runs to its
\* end in the sleep and another sweep starts: the poller reaches the sleep
\* that ends the last of the MaxSweeps sweeps followed, whatever failed.
C12_PollerNeverStops ==
  /\ [](pc \in {"start", "fetch", "send", "sleep"})
  /\ <>[](pc = "sleep" /\ sweeps = MaxSweeps)

C12_Witness ==
  /\ sweeps = MaxSweeps
  /\ pc = "fetch"
  /\ idx > 1
  /\ outcome[snapshot[1]] = "error"
  /\ users[chat_id].last_slot # NoneSlot

(***************************************************************************)
(* Claims about the groups cache.                                          *)
(***************************************************************************)
\* the list seq enumerates the keys without "#" of ks in ascending order
ListsDefaultsOf(seq, ks) ==
  /\ {seq[i] : i \in 1..Len(seq)} = {g \in ks : g[2] # "#"}
  /\ \A i, j \in 1..Len(seq) : i < j => KeyBefore(seq[i], seq[j])

\* C13: a call of get_groups made while now - ts < 60 minutes returns the
\* cached list and starts no fetch, any other call starts a fetch; the cached
\* timestamp and the cached list change only together, to the instant and the
\* sorted list of the fetch that returns; a fetch that fails changes neither.
\* So the cached list is always the sorted list of the fetch that set the
\* timestamp, whatever calls are in progress.
C13_CacheConsistent ==
  /\ [](IF cache_ts = NoTs THEN cache_groups = <<>>
                           ELSE ListsDefaultsOf(cache_groups, ts_data))
  /\ [][/\ listings' # listings =>
             IF cache_ts # NoTs /\ clock - cache_ts[1] < CacheMinutes
               THEN /\ gg_ret' = cache_groups
                    /\ inflight' = inflight
                    /\ UNCHANGED <<cache_ts, cache_groups>>
               ELSE /\ inflight' = inflight + 1
                    /\ UNCHANGED <<cache_ts, cache_groups>>
        /\ (cache_ts' # cache_ts \/ cache_groups' # cache_groups) =>
             /\ gg_last' = "refetched"
             /\ cache_ts' = <<clock>>
             /\ ListsDefaultsOf(cache_groups', ts_data')
             /\ gg_ret' = cache_groups'
        /\ gg_last' = "raised" => UNCHANGED <<cache_ts, cache_groups>>]_vars

C13_Witness ==
  /\ cache_ts # NoTs
  /\ clock - cache_ts[1] >= CacheMinutes
  /\ Len(cache_groups) = 2
  /\ gg_last = "raised"
  /\ inflight > 0
  /\ ts_data = GroupKeys

(***************************************************************************)
(* Claims about the sweep and the handlers that run during it.             *)
(***************************************************************************)
\* the sweep's evaluation of chat c awaits its fetch or its send
InFlight(c) == outcome[c] \in {"fetching", "sending"}

\* C15: at most one evaluation is pending at any time, that of the poller's
\* chat_id at the poller's await; no sweep starts while one is pending; a
\* send is awaited only after the decision taken at the return of the fetch,
\* and a notification is recorded only at the return of the send that
\* decision started.
C15_OneEvaluationPending ==
  /\ [](\A c \in Chats :
          /\ outcome[c] = "fetching" => (pc = "fetch" /\ chat_id = c)
          /\ outcome[c] = "sending" => (pc = "send" /\ chat_id = c))
  /\ [][/\ sweeps' # sweeps => \A c \in Chats : ~InFlight(c)
        /\ \A c \in Chats :
             /\ (outcome'[c] = "fetching" /\ outcome[c] # "fetching") => ~InFlight(c)
             /\ (outcome'[c] = "sending" /\ outcome[c] # "sending") =>
                   outcome[c] = "fetching"
             /\ (outcome'[c] = "notified" /\ outcome[c] # "notified") =>
                   (outcome[c] = "sending" /\ users'[c].last_slot = cur[1])]_vars

C15_Witness ==
  /\ sweeps = MaxSweeps
  /\ pc = "send"
  /\ idx = 2
  /\ outcome[snapshot[1]] = "notified"
  /\ outcome[chat_id] = "sending"

\* chat c is in the list the sweep iterates over, at or before position i
InSnapshot(c, i) == \E k \in 1..Len(snapshot) : k <= i /\ snapshot[k] = c

\* C16: the list a sweep iterates over is the subscriber set at its start and
\* does not change during the sweep; no chat is in it twice; a chat the sweep
\* has visited is in the list at or before the loop's position and is not
\* visited again in that sweep; a chat created during the sweep is not
\* visited in it and is in the list of the sweep that starts next, which has
\* visited its whole list when it sleeps.
C16_SweepOverSnapshot ==
  /\ [](/\ \A c \in Chats : outcome[c] # "none" => InSnapshot(c, idx)
        /\ \A i, j \in 1..Len(snapshot) : snapshot[i] = snapshot[j] => i = j
        /\ pc = "sleep" => \A c \in Chats : InSnapshot(c, Len(snapshot)) => outcome[c] # "none")
  /\ [][/\ sweeps' = sweeps => snapshot' = snapshot
        /\ sweeps' # sweeps =>
             /\ snapshot' = user_order
             /\ \A c \in Chats : Known(c) => InSnapshot(c, Len(snapshot))'
        /\ \A c \in Chats :
             (sweeps' = sweeps /\ outcome[c] \notin {"none", "fetching", "sending"}) =>
                outcome'[c] = outcome[c]]_vars

C16_Witness ==
  /\ pc \in {"fetch", "send"}
  /\ sweeps = MaxSweeps
  /\ Len(user_order) > Len(snapshot)
  /\ Len(snapshot) > 0
  /\ users[user_order[Len(user_order)]].group # NoneStr
  /\ outcome[user_order[Len(user_order)]] = "none"

\* C17: the notification a sweep sends names the group the chat has selected
\* when it is sent, also when the chat selected another group during the
\* fetch.
C17_NotificationNamesSelectedGroup ==
  [][(pc = "fetch" /\ pc' = "send") => group = users[chat_id].group]_vars

\* C18: a notification is sent only for a slot that differs from the one
\* recorded for the chat, its return records that slot, and what is recorded
\* changes only there and at a selection: so two notifications of a chat with
\* no selection between them report different slots, and while a sweep
\* resolves the recorded slot it sends nothing.
C18_NoDuplicateNotification ==
  [][\A c \in Chats :
       /\ (outcome'[c] = "sending" /\ outcome[c] # "sending") =>
             cur' # LastTold(users[c])
       /\ (outcome'[c] = "notified" /\ outcome[c] # "notified") =>
             (selections' = selections /\ LastTold(users'[c]) = cur)
       /\ (outcome'[c] = "unchanged" /\ outcome[c] # "unchanged") =>
             (cur' = LastTold(users[c]) /\ users' = users)
       /\ LastTold(users'[c]) # LastTold(users[c]) =>
             \/ selections' # selections
             \/ outcome'[c] = "notified" /\ outcome[c] = "sending"]_vars

C18_Witness ==
  \E c \in Chats :
    /\ selections = 1
    /\ sweeps = MaxSweeps
    /\ outcome[c] = "sending"
    /\ users[c].last_slot # NoneSlot
    /\ cur # LastTold(users[c])

\* C19: for every chat, last_slot is None exactly when last_status is None,
\* and a chat without a group has both None.
C19_LastFieldsTogether ==
  \A c \in Chats :
    /\ users[c].last_slot = NoneSlot <=> users[c].last_status = NoneStr
    /\ users[c].group = NoneStr => LastTold(users[c]) = <<NoneSlot, NoneStr>>

C19_Witness ==
  /\ Len(user_order) = MaxChats
  /\ users[1].group = NoneStr
  /\ users[MaxChats].last_slot # NoneSlot
  /\ outcome[1] = "nogroup"
  /\ outcome[MaxChats] = "notified"

====
